---- MODULE Spec2Model ----
(***************************************************************************)
(* Model of the single-asset Value-at-Risk calculator: the return          *)
(* calculator (src/src/returns.py), the three estimators                   *)
(* (src/src/var_methods.py), the dollar scaling (src/src/portfolio.py) and *)
(* the pipeline orchestrator (src/src/pipeline.py).                        *)
(*                                                                         *)
(* Numbers.  A float is a record [k, v]: k = "fin" with the integer v, or  *)
(* one of the IEEE specials "nan", "pinf", "ninf" (v = 0).  Prices are     *)
(* powers of two (or 0, or missing), so that a log return is an integer    *)
(* number of units ln 2.  The mean and the standard deviation are fixed    *)
(* point with Res digits, np.percentile multiplies the unit of its array   *)
(* by Scale, which makes its linear interpolation exact, and every         *)
(* percentage VaR is in 1 / VarScale of the unit of the returns.           *)
(* Confidence levels are percents.  An optional argument is None or        *)
(* Fin(n).  mc_simulations is always passed to the pipeline: the default   *)
(* of 10000 draws is modelled and not run.                                 *)
(***************************************************************************)
EXTENDS Integers, Sequences, FiniteSets, TLC

\* ------------------------------------------------------------------ bounds
MaxLen == 3          \* longest sample handed directly to an estimator
MaxHead == 2         \* free prices in front of the fixed tail of a history
MaxSims == 2         \* largest num_simulations tried
MaxPos == 2          \* draws taken from one generator stream

\* -------------------------------------------------------- program constants
MinObservations == 30
PipelineSeed == 42
DefaultConfidence == 95
DefaultPortfolioValue == 100000
DefaultTimeHorizon == 1
DefaultMcSimulations == 10000
Scale == 100         \* np.percentile takes q in hundredths
Res == 10            \* fixed-point digits of mean and standard deviation
ZScale == 1000       \* norm.ppf is carried in thousandths

None == [k |-> "none", v |-> 0]
NaN == [k |-> "nan", v |-> 0]
PInf == [k |-> "pinf", v |-> 0]
NInf == [k |-> "ninf", v |-> 0]
Fin(n) == [k |-> "fin", v |-> n]

IsNaN(x) == x.k = "nan"
IsFinite(x) == x.k = "fin"
IsInf(x) == x.k \in {"pinf", "ninf"}

\* sign of a non-NaN float: -1, 0, 1
Sign(x) ==
  CASE x.k = "pinf" -> 1
    [] x.k = "ninf" -> -1
    [] OTHER -> IF x.v > 0 THEN 1 ELSE IF x.v < 0 THEN -1 ELSE 0

Neg(x) ==
  CASE x.k = "fin" -> Fin(0 - x.v)
    [] x.k = "pinf" -> NInf
    [] x.k = "ninf" -> PInf
    [] OTHER -> NaN

Add(x, y) ==
  CASE IsNaN(x) \/ IsNaN(y) -> NaN
    [] IsFinite(x) /\ IsFinite(y) -> Fin(x.v + y.v)
    [] IsInf(x) /\ IsInf(y) -> IF x.k = y.k THEN x ELSE NaN
    [] IsInf(x) -> x
    [] OTHER -> y

Sub(x, y) == Add(x, Neg(y))

Mul(x, y) ==
  CASE IsNaN(x) \/ IsNaN(y) -> NaN
    [] IsFinite(x) /\ IsFinite(y) -> Fin(x.v * y.v)
    [] Sign(x) * Sign(y) = 0 -> NaN
    [] Sign(x) * Sign(y) > 0 -> PInf
    [] OTHER -> NInf

\* x / d for a positive integer d, rounded down (fixed point)
DivInt(x, d) == IF IsFinite(x) THEN Fin(x.v \div d) ELSE x

\* x <= y on non-NaN floats
Leq(x, y) ==
  CASE x.k = "ninf" \/ y.k = "pinf" -> TRUE
    [] x.k = "pinf" \/ y.k = "ninf" -> FALSE
    [] OTHER -> x.v <= y.v

RECURSIVE ISqrtIn(_, _, _)
\* the r with lo <= r < hi and r * r <= n < (r + 1) * (r + 1), by bisection
ISqrtIn(n, lo, hi) ==
  IF hi - lo <= 1 THEN lo
  ELSE LET mid == (lo + hi) \div 2
       IN IF mid * mid <= n THEN ISqrtIn(n, mid, hi) ELSE ISqrtIn(n, lo, mid)
\* floor of the square root of a natural number below 2^30
ISqrt(n) == ISqrtIn(n, 0, 32768)

\* np.sqrt on a fixed-point float with `scale` units per 1
Sqrt(x, scale) ==
  CASE x.k = "fin" -> IF x.v < 0 THEN NaN ELSE Fin(ISqrt(x.v * scale))
    [] x.k = "pinf" -> PInf
    [] OTHER -> NaN

\* ------------------------------------------------------- sequence helpers
\* np.sort on an array without NaN
Sort(s) == SortSeq(s, LAMBDA x, y : Leq(x, y) /\ x # y)

RECURSIVE SumSeq(_)
SumSeq(s) == IF s = <<>> THEN Fin(0) ELSE Add(Head(s), SumSeq(Tail(s)))

RECURSIVE SumSq(_)
SumSq(s) == IF s = <<>> THEN Fin(0) ELSE Add(Mul(Head(s), Head(s)), SumSq(Tail(s)))

AnyNaN(s) == \E i \in 1..Len(s) : IsNaN(s[i])
AllFinite(s) == \A i \in 1..Len(s) : IsFinite(s[i])

\* ------------------------------------------------------ returns.py
\* log2 of a price that is a power of two
Log2(p) == CASE p = 1 -> 0 [] p = 2 -> 1 [] p = 4 -> 2 [] p = 8 -> 3

\* np.log(cur / prev) for prices that are 0, missing or a power of two
LogRatio(cur, prev) ==
  CASE IsNaN(cur) \/ IsNaN(prev) -> NaN
    [] prev.v = 0 /\ cur.v = 0 -> NaN
    [] prev.v = 0 -> PInf
    [] cur.v = 0 -> NInf
    [] OTHER -> Fin(Log2(cur.v) - Log2(prev.v))

\* prices.pct_change(): cur / prev - 1, here in hundredths
SimpleRatio(cur, prev) ==
  CASE IsNaN(cur) \/ IsNaN(prev) -> NaN
    [] prev.v = 0 /\ cur.v = 0 -> NaN
    [] prev.v = 0 -> PInf
    [] OTHER -> Fin(((Scale * cur.v) \div prev.v) - Scale)

\* calculate_returns: outcome "ok" with the series (leading NaN kept), or
\* ValueError for an unknown method
calculate_returns(prices, method) ==
  IF method \notin {"log", "simple"}
  THEN [outcome |-> "ValueError", msg |-> "Unknown method", value |-> <<>>]
  ELSE [outcome |-> "ok", msg |-> "",
        value |-> [i \in 1..Len(prices) |->
                     IF i = 1 THEN NaN
                     ELSE IF method = "log" THEN LogRatio(prices[i], prices[i-1])
                          ELSE SimpleRatio(prices[i], prices[i-1])]]

\* pandas Series.dropna / returns[~np.isnan(returns)]: NaN goes, inf stays
RECURSIVE dropna(_)
dropna(s) ==
  IF s = <<>> THEN <<>>
  ELSE IF IsNaN(Head(s)) THEN dropna(Tail(s))
       ELSE <<Head(s)>> \o dropna(Tail(s))

\* ------------------------------------------------------ var_methods.py
Ok(x) == [outcome |-> "ok", msg |-> "", value |-> x]
ValueError(m) == [outcome |-> "ValueError", msg |-> m, value |-> NaN]

\* np.percentile(a, q), q a percent: ValueError outside [0, 100]; NaN for an
\* empty array or one holding a NaN; else the linear interpolation between
\* the order statistics around q * (n - 1) / 100.  The value is in
\* hundredths of the unit of a.
Percentile(a, q) ==
  IF q < 0 \/ q > 100 THEN ValueError("Percentiles must be in the range [0, 100]")
  ELSE IF Len(a) = 0 \/ AnyNaN(a) THEN Ok(NaN)
  ELSE LET sorted == Sort(a)
           n == Len(a)
           pos == q * (n - 1)
           lo == (pos \div Scale) + 1
           hi == IF lo + 1 > n THEN n ELSE lo + 1
           frac == pos % Scale
       IN Ok(Add(Mul(Fin(Scale), sorted[lo]),
                 Mul(Sub(sorted[hi], sorted[lo]), Fin(frac))))

\* np.mean(returns), in 1/Res of the unit of the returns
Mean(r) == DivInt(Mul(Fin(Res), SumSeq(r)), Len(r))

\* np.std(returns, ddof=1), in 1/Res: NaN for one observation (0 / 0) and
\* for a sample holding an infinity (inf - inf)
Std(r) ==
  LET n == Len(r)
      sx == SumSeq(r)
      sxx == SumSq(r)
  IN IF n < 2 \/ ~AllFinite(r) THEN NaN
     ELSE Fin(ISqrt((Res * Res * (n * sxx.v - sx.v * sx.v)) \div (n * (n - 1))))

\* scipy.stats.norm.ppf at a percent c, in 1/ZScale
NormPpf(c) ==
  CASE c < 0 \/ c > 100 -> NaN
    [] c = 0 -> NInf
    [] c = 100 -> PInf
    [] c = 50 -> Fin(0)
    [] c = 60 -> Fin(253)
    [] c = 90 -> Fin(1282)
    [] c = 95 -> Fin(1645)
    [] c = 99 -> Fin(2326)
    [] c = 40 -> Fin(-253)
    [] c = 10 -> Fin(-1282)
    [] c = 5 -> Fin(-1645)
    [] c = 1 -> Fin(-2326)

\* unit of every percentage VaR: 1 / VarScale of the unit of the returns
VarScale == Scale * Res

\* the percentile returned without the change of sign
historical_var_NoNegation(returns, confidence_level) ==
  LET r == dropna(returns)
      pct == Percentile(r, 100 - confidence_level)
  IN IF Len(r) = 0 THEN ValueError("No valid returns data provided.")
     ELSE IF pct.outcome # "ok" THEN pct
     ELSE Ok(Mul(Fin(Res), pct.value))

\* the percentile taken at the confidence level, the gain tail
historical_var_WrongTail(returns, confidence_level) ==
  LET r == dropna(returns)
      pct == Percentile(r, confidence_level)
  IN IF Len(r) = 0 THEN ValueError("No valid returns data provided.")
     ELSE IF pct.outcome # "ok" THEN pct
     ELSE Ok(Neg(Mul(Fin(Res), pct.value)))

\* historical_var(returns, confidence_level)
historical_var(returns, confidence_level) ==
  LET r == dropna(returns)
      pct == Percentile(r, 100 - confidence_level)
  IN IF Len(r) = 0 THEN ValueError("No valid returns data provided.")
     ELSE IF pct.outcome # "ok" THEN pct
     ELSE Ok(Neg(Mul(Fin(Res), pct.value)))

\* parametric_var(returns, confidence_level)
parametric_var(returns, confidence_level) ==
  LET r == dropna(returns)
      mu == Mean(r)
      sigma == Std(r)
      z == NormPpf(confidence_level)
  IN IF Len(r) = 0 THEN ValueError("No valid returns data provided.")
     ELSE Ok(Neg(Sub(Mul(Fin(Scale), mu), DivInt(Mul(z, sigma), ZScale \div Scale))))

\* ---- the process-wide generator behind np.random
\* its state: the stream it was seeded to (0: the one it starts with) and how
\* many draws were taken
RngStreams == {0, PipelineSeed}
RngStates == [stream : RngStreams, pos : 0..MaxPos]
\* the i-th standard normal draw of a stream, in whole standard deviations
StdNormal(stream, i) == ((3 * stream + i * i + 2 * i) % 5) - 2
\* np.random.seed(seed)
Seed(seed) == [stream |-> seed, pos |-> 0]

\* np.random.normal(loc, scale, size) on the generator state g: ValueError
\* for a negative size or a negative scale, else size draws and the
\* advanced state
RandomNormal(g, loc, scale, size) ==
  IF size < 0 THEN [outcome |-> "ValueError", msg |-> "negative dimensions are not allowed",
                    value |-> <<>>, rng |-> g]
  ELSE IF ~IsNaN(scale) /\ Sign(scale) < 0
  THEN [outcome |-> "ValueError", msg |-> "scale < 0", value |-> <<>>, rng |-> g]
  ELSE [outcome |-> "ok", msg |-> "",
        value |-> [i \in 1..size |->
                     Add(loc, Mul(scale, Fin(StdNormal(g.stream, g.pos + i - 1))))],
        rng |-> [stream |-> g.stream, pos |-> g.pos + size]]

\* a seed that is accepted and never applied
SeedStep_Ignored(g, random_seed) == g

\* the generator state monte_carlo_var draws from: seeded when a seed is given
SeedStep(g, random_seed) == IF random_seed # None THEN Seed(random_seed.v) ELSE g

\* the rest of monte_carlo_var, from the draw on, on the generator state g1
DrawStep(g1, returns, confidence_level, num_simulations, time_horizon) ==
  LET r == dropna(returns)
      mu == Mean(r)
      sigma == Std(r)
      sim == RandomNormal(g1, Mul(mu, Fin(time_horizon)),
                          DivInt(Mul(sigma, Sqrt(Fin(time_horizon), Scale * Scale)), Scale),
                          num_simulations)
      pct == Percentile(sim.value, 100 - confidence_level)
  IN IF sim.outcome # "ok"
     THEN [outcome |-> sim.outcome, msg |-> sim.msg, value |-> NaN,
           sample |-> <<>>, rng |-> sim.rng]
     ELSE IF pct.outcome # "ok"
     THEN [outcome |-> pct.outcome, msg |-> pct.msg, value |-> NaN,
           sample |-> <<>>, rng |-> sim.rng]
     ELSE [outcome |-> "ok", msg |-> "", value |-> Neg(pct.value),
           sample |-> sim.value, rng |-> sim.rng]

\* monte_carlo_var(returns, confidence_level, num_simulations, time_horizon,
\* random_seed) called with the process-wide generator in state g
monte_carlo_var(g, returns, confidence_level, num_simulations, time_horizon, random_seed) ==
  IF Len(dropna(returns)) = 0
  THEN [outcome |-> "ValueError", msg |-> "No valid returns data provided.",
        value |-> NaN, sample |-> <<>>, rng |-> g]
  ELSE DrawStep(SeedStep(g, random_seed), returns, confidence_level,
                num_simulations, time_horizon)

\* ------------------------------------------------------ portfolio.py
\* the dollar value taken from the magnitude of the percentage
calculate_portfolio_var_Abs(returns, portfolio_value, var_percentage) ==
  [var_percentage |-> var_percentage,
   var_dollar |-> Mul(Fin(portfolio_value),
                      IF Sign(var_percentage) < 0 THEN Neg(var_percentage) ELSE var_percentage)]

calculate_portfolio_var(returns, portfolio_value, var_percentage) ==
  [var_percentage |-> var_percentage,
   var_dollar |-> Mul(Fin(portfolio_value), var_percentage)]

\* ------------------------------------------------------ data_fetcher.py
\* fetch_price_history on the provider's answer (the closing prices in date
\* order): ValueError for an empty frame
fetch_price_history(response) ==
  IF response = <<>>
  THEN [outcome |-> "ValueError", msg |-> "No data returned for ticker", value |-> <<>>]
  ELSE [outcome |-> "ok", msg |-> "", value |-> response]

\* ------------------------------------------------------ pipeline.py
TickerNone == "<None>"
DefaultTicker == "AAPL"
RecordFields ==
  {"ticker", "portfolio_value", "confidence_level", "returns", "historical_var",
   "parametric_var", "monte_carlo_var", "mc_simulated_returns",
   "historical_var_dollar", "parametric_var_dollar", "monte_carlo_var_dollar"}
NoRecord == <<>>

\* the floor taken one observation too low
BelowFloor_OffByOne(n) == n < MinObservations - 1

\* the floor on the number of cleaned returns
BelowFloor(n) == n < MinObservations

\* a failed run that hands back the fields it has so far
Raise_Partial(err, calls, clean, g) ==
  [outcome |-> err.outcome, msg |-> err.msg, record |-> [returns |-> clean],
   calls |-> calls, clean |-> clean, rng |-> g]

\* a failed run: the error, the estimator calls made so far, no record
Raise(err, calls, clean, g) ==
  [outcome |-> err.outcome, msg |-> err.msg, record |-> NoRecord,
   calls |-> calls, clean |-> clean, rng |-> g]

\* the pipeline with the parametric estimate scaled to the horizon by the
\* square-root-of-time rule
calculate_var_for_ticker_ScaledParam(g, ticker, confidence_level, portfolio_value, time_horizon, mc_simulations, response) ==
  LET tk == IF ticker = TickerNone THEN DefaultTicker ELSE ticker
      cl == IF confidence_level = None THEN DefaultConfidence ELSE confidence_level.v
      pv == IF portfolio_value = None THEN DefaultPortfolioValue ELSE portfolio_value.v
      th == IF time_horizon = None THEN DefaultTimeHorizon ELSE time_horizon.v
      ms == IF mc_simulations = None THEN DefaultMcSimulations ELSE mc_simulations.v
      df == fetch_price_history(response)
      returns_series == calculate_returns(df.value, "log")
      returns_clean == dropna(returns_series.value)
      hist == historical_var(returns_clean, cl)
      single == parametric_var(returns_clean, cl)
      param == [single EXCEPT !.value = DivInt(Mul(single.value, Sqrt(Fin(th), Scale * Scale)), Scale)]
      mc == monte_carlo_var(g, returns_clean, cl, ms, th, Fin(PipelineSeed))
      c1 == <<[fn |-> "historical_var", sample |-> returns_clean]>>
      c2 == c1 \o <<[fn |-> "parametric_var", sample |-> returns_clean]>>
      c3 == c2 \o <<[fn |-> "monte_carlo_var", sample |-> returns_clean]>>
  IN IF df.outcome # "ok" THEN Raise(df, <<>>, <<>>, g)
     ELSE IF returns_series.outcome # "ok" THEN Raise(returns_series, <<>>, <<>>, g)
     ELSE IF BelowFloor(Len(returns_clean))
     THEN Raise(ValueError("Insufficient data"), <<>>, returns_clean, g)
     ELSE IF hist.outcome # "ok" THEN Raise(hist, c1, returns_clean, g)
     ELSE IF param.outcome # "ok" THEN Raise(param, c2, returns_clean, g)
     ELSE IF mc.outcome # "ok" THEN Raise(mc, c3, returns_clean, mc.rng)
     ELSE [outcome |-> "ok", msg |-> "",
           record |->
             [ticker |-> tk,
              portfolio_value |-> Fin(pv),
              confidence_level |-> cl,
              returns |-> returns_clean,
              historical_var |-> hist.value,
              parametric_var |-> param.value,
              monte_carlo_var |-> mc.value,
              mc_simulated_returns |-> mc.sample,
              historical_var_dollar |-> Mul(Fin(pv), hist.value),
              parametric_var_dollar |-> Mul(Fin(pv), param.value),
              monte_carlo_var_dollar |-> Mul(Fin(pv), mc.value)],
           calls |-> c3, clean |-> returns_clean, rng |-> mc.rng]

\* calculate_var_for_ticker with the process-wide generator in state g and
\* the provider answering `response`.  calls lists the estimators invoked,
\* each with the sample it was given; clean is the sample counted against
\* the floor.
calculate_var_for_ticker(g, ticker, confidence_level, portfolio_value, time_horizon, mc_simulations, response) ==
  LET tk == IF ticker = TickerNone THEN DefaultTicker ELSE ticker
      cl == IF confidence_level = None THEN DefaultConfidence ELSE confidence_level.v
      pv == IF portfolio_value = None THEN DefaultPortfolioValue ELSE portfolio_value.v
      th == IF time_horizon = None THEN DefaultTimeHorizon ELSE time_horizon.v
      ms == IF mc_simulations = None THEN DefaultMcSimulations ELSE mc_simulations.v
      df == fetch_price_history(response)
      returns_series == calculate_returns(df.value, "log")
      returns_clean == dropna(returns_series.value)
      hist == historical_var(returns_clean, cl)
      param == parametric_var(returns_clean, cl)
      mc == monte_carlo_var(g, returns_clean, cl, ms, th, Fin(PipelineSeed))
      c1 == <<[fn |-> "historical_var", sample |-> returns_clean]>>
      c2 == c1 \o <<[fn |-> "parametric_var", sample |-> returns_clean]>>
      c3 == c2 \o <<[fn |-> "monte_carlo_var", sample |-> returns_clean]>>
  IN IF df.outcome # "ok" THEN Raise(df, <<>>, <<>>, g)
     ELSE IF returns_series.outcome # "ok" THEN Raise(returns_series, <<>>, <<>>, g)
     ELSE IF BelowFloor(Len(returns_clean))
     THEN Raise(ValueError("Insufficient data"), <<>>, returns_clean, g)
     ELSE IF hist.outcome # "ok" THEN Raise(hist, c1, returns_clean, g)
     ELSE IF param.outcome # "ok" THEN Raise(param, c2, returns_clean, g)
     ELSE IF mc.outcome # "ok" THEN Raise(mc, c3, returns_clean, mc.rng)
     ELSE [outcome |-> "ok", msg |-> "",
           record |->
             [ticker |-> tk,
              portfolio_value |-> Fin(pv),
              confidence_level |-> cl,
              returns |-> returns_clean,
              historical_var |-> hist.value,
              parametric_var |-> param.value,
              monte_carlo_var |-> mc.value,
              mc_simulated_returns |-> mc.sample,
              historical_var_dollar |-> Mul(Fin(pv), hist.value),
              parametric_var_dollar |-> Mul(Fin(pv), param.value),
              monte_carlo_var_dollar |-> Mul(Fin(pv), mc.value)],
           calls |-> c3, clean |-> returns_clean, rng |-> mc.rng]

\* ------------------------------------------------------------ inputs
RECURSIVE SeqsUpTo(_, _)
\* the sequences over S of length at most n
SeqsUpTo(S, n) ==
  IF n = 0 THEN {<<>>}
  ELSE LET shorter == SeqsUpTo(S, n - 1)
       IN shorter \cup {Append(q, x) : q \in {t \in shorter : Len(t) = n - 1}, x \in S}

SampleVals == {Fin(-1), Fin(2), NaN}
Samples == SeqsUpTo(SampleVals, MaxLen)
ConfLevels == {60, 95, 150}
\* historical_var is also tried at confidence levels on both sides of 0.5
HistConfLevels == ConfLevels \cup {1, 10, 40, 50, 90, 99}
NumSims == {-1, 0} \cup 1..MaxSims
Horizons == {1, 4}
SeedArgs == {None, Fin(PipelineSeed)}
PortfolioValues == {-1000, 0, 1000}
VarPercentages == {Fin(-25), Fin(0), Fin(40), NaN}
Methods == {"log", "simple", "sqrt"}
PriceVals == {NaN, Fin(0), Fin(2)}
PriceSeqs == SeqsUpTo({NaN, Fin(0), Fin(1), Fin(4)}, MaxHead)

\* price histories: up to MaxHead free prices, then a tail of MinObservations
\* prices that cycles through 1, 2, 4 (log returns +1, +1, -2); the tail
\* alone gives one return less than the floor, a defined price in front of
\* it reaches the floor, a missing one does not
TailPrice(i) == Fin(CASE i % 3 = 1 -> 1 [] i % 3 = 2 -> 2 [] OTHER -> 4)
TailOf(t) == [i \in 1..t |-> TailPrice(i)]
TailLens == {MinObservations}
Responses == {<<>>} \cup {h \o TailOf(t) : h \in SeqsUpTo(PriceVals, MaxHead), t \in TailLens}

PipeTickers == {TickerNone, "MSFT"}
PipeConf == {None, Fin(0), Fin(100), Fin(150)}
PipeValues == {None, Fin(-1000)}
PipeHorizons == {None, Fin(4)}
PipeSims == {Fin(-1), Fin(0), Fin(MaxSims)}

\* ------------------------------------------------------------ state
VARIABLES
  rng,    \* state of the process-wide generator np.random
  pc,     \* "idle", or "returned" when a call has just ended
  last,   \* the call that has just ended: function, arguments, outcome
  thr     \* the threads running monte_carlo_var side by side

vars == <<rng, pc, last, thr>>

NoCall == [fn |-> "none"]
NoThreads == <<>>

Init ==
  /\ rng = [stream |-> 0, pos |-> 0]
  /\ pc = "idle"
  /\ last = NoCall
  /\ thr = NoThreads

CallCalculateReturns ==
  /\ pc = "idle"
  /\ \E prices \in PriceSeqs, method \in Methods :
       /\ pc' = "returned"
       /\ last' = [fn |-> "calculate_returns", prices |-> prices, method |-> method,
                   out |-> calculate_returns(prices, method)]
  /\ UNCHANGED <<rng, thr>>

CallHistoricalVar ==
  /\ pc = "idle"
  /\ \E returns \in Samples, c \in HistConfLevels :
       /\ pc' = "returned"
       /\ last' = [fn |-> "historical_var", returns |-> returns, confidence_level |-> c,
                   out |-> historical_var(returns, c)]
  /\ UNCHANGED <<rng, thr>>

CallParametricVar ==
  /\ pc = "idle"
  /\ \E returns \in Samples, c \in ConfLevels :
       /\ pc' = "returned"
       /\ last' = [fn |-> "parametric_var", returns |-> returns, confidence_level |-> c,
                   out |-> parametric_var(returns, c)]
  /\ UNCHANGED <<rng, thr>>

CallMonteCarloVar ==
  /\ pc = "idle"
  /\ \E returns \in Samples, c \in ConfLevels, n \in NumSims, h \in Horizons, seed \in SeedArgs :
       LET out == monte_carlo_var(rng, returns, c, n, h, seed)
       IN /\ seed = None => rng.pos + n <= MaxPos
          /\ pc' = "returned"
          /\ last' = [fn |-> "monte_carlo_var", returns |-> returns, confidence_level |-> c,
                      num_simulations |-> n, time_horizon |-> h, random_seed |-> seed,
                      before |-> rng, out |-> out]
          /\ rng' = out.rng
  /\ UNCHANGED thr

CallPortfolioVar ==
  /\ pc = "idle"
  /\ \E returns \in Samples, pv \in PortfolioValues, var \in VarPercentages :
       /\ pc' = "returned"
       /\ last' = [fn |-> "calculate_portfolio_var", portfolio_value |-> pv,
                   var_percentage |-> var,
                   out |-> calculate_portfolio_var(returns, pv, var)]
  /\ UNCHANGED <<rng, thr>>

CallPipeline ==
  /\ pc = "idle"
  /\ \E ticker \in PipeTickers, c \in PipeConf, pv \in PipeValues, h \in PipeHorizons,
        ms \in PipeSims, response \in Responses :
       LET out == calculate_var_for_ticker(rng, ticker, c, pv, h, ms, response)
       IN /\ pc' = "returned"
          /\ last' = [fn |-> "calculate_var_for_ticker", ticker |-> ticker,
                      confidence_level |-> c, portfolio_value |-> pv, time_horizon |-> h,
                      mc_simulations |-> ms, response |-> response, before |-> rng,
                      out |-> out]
          /\ rng' = out.rng
  /\ UNCHANGED thr

\* the caller takes the result and goes on
Resume ==
  /\ pc = "returned"
  /\ pc' = "idle"
  /\ last' = NoCall
  /\ UNCHANGED <<rng, thr>>

Next ==
  \/ CallCalculateReturns
  \/ CallHistoricalVar
  \/ CallParametricVar
  \/ CallMonteCarloVar
  \/ CallPortfolioVar
  \/ CallPipeline
  \/ Resume

Spec == Init /\ [][Next]_vars

\* ------------------------------------------------- threads side by side
\* Two threads of the host each call monte_carlo_var with a seed.  A thread
\* can be switched out between np.random.seed and np.random.normal.
Threads == {1, 2}
ThreadSeeds == {Fin(7), Fin(PipelineSeed)}
ThreadSamples == {<<Fin(-1), Fin(2)>>, <<Fin(2), Fin(2), Fin(-1)>>}
ThreadConf == {60, 95}

InitConc ==
  /\ rng \in {g \in RngStates : g.stream = 0 /\ g.pos <= 1}
  /\ pc = "idle"
  /\ last = NoCall
  /\ thr \in [Threads -> [pc : {"start"}, returns : ThreadSamples,
                          confidence_level : ThreadConf, num_simulations : 1..MaxSims,
                          time_horizon : {1}, random_seed : ThreadSeeds,
                          out : {NoCall}]]

\* thread t runs monte_carlo_var up to and including np.random.seed
ThreadSeed(t) ==
  /\ thr[t].pc = "start"
  /\ IF Len(dropna(thr[t].returns)) = 0
     THEN /\ thr' = [thr EXCEPT ![t].pc = "done",
                                ![t].out = monte_carlo_var(rng, thr[t].returns,
                                             thr[t].confidence_level, thr[t].num_simulations,
                                             thr[t].time_horizon, thr[t].random_seed)]
          /\ rng' = rng
     ELSE /\ thr' = [thr EXCEPT ![t].pc = "seeded"]
          /\ rng' = SeedStep(rng, thr[t].random_seed)
  /\ UNCHANGED <<pc, last>>

\* thread t runs the rest of monte_carlo_var: np.random.normal and the percentile
ThreadDraw(t) ==
  /\ thr[t].pc = "seeded"
  /\ LET out == DrawStep(rng, thr[t].returns, thr[t].confidence_level,
                         thr[t].num_simulations, thr[t].time_horizon)
     IN /\ thr' = [thr EXCEPT ![t].pc = "done", ![t].out = out]
        /\ rng' = out.rng
  /\ UNCHANGED <<pc, last>>

NextConc ==
  \/ \E t \in Threads : ThreadSeed(t)
  \/ \E t \in Threads : ThreadDraw(t)

SpecConc == InitConc /\ [][NextConc]_vars

\* ================================================================ claims
IsPipeline == last.fn = "calculate_var_for_ticker"
Failed(out) == out.outcome # "ok"
\* the number of defined log returns of a price history
ValidReturns(prices) ==
  Cardinality({i \in 2..Len(prices) : ~IsNaN(LogRatio(prices[i], prices[i-1]))})
NonNegative(x) == x.k = "pinf" \/ (x.k = "fin" /\ x.v >= 0)
Negatives(r) == {i \in 1..Len(r) : ~IsNaN(r[i]) /\ Sign(r[i]) < 0}

\* C1: a run of calculate_var_for_ticker that is left with fewer than 30
\* returns after the undefined ones are dropped fails with the
\* insufficient-data error, calls no estimator and returns no record; with
\* 30 or more returns the run never fails with that error.
C1_FloorFailsRun ==
  (IsPipeline /\ last.response # <<>>) =>
    /\ ValidReturns(last.response) < 30 =>
         /\ last.out.outcome = "ValueError"
         /\ last.out.msg = "Insufficient data"
         /\ last.out.calls = <<>>
         /\ last.out.record = NoRecord
    /\ ValidReturns(last.response) >= 30 => last.out.msg # "Insufficient data"

\* a run stopped by the floor with 29 returns left
C1_Witness ==
  /\ IsPipeline
  /\ ValidReturns(last.response) = 29
  /\ last.out.msg = "Insufficient data"

\* C2: a run of calculate_var_for_ticker ends either with a record that has
\* every field, or with an error and no record at all; a failure at any
\* stage never leaves a record with some fields only.
C2_AllOrNothing ==
  IsPipeline =>
    \/ /\ last.out.outcome = "ok"
       /\ DOMAIN last.out.record = RecordFields
    \/ /\ Failed(last.out)
       /\ last.out.record = NoRecord

\* a run in which the third estimator failed after the first two returned
C2_Witness ==
  /\ IsPipeline
  /\ Failed(last.out)
  /\ Len(last.out.calls) = 3

\* C3: the dollar VaR is the percentage VaR times the portfolio value, in
\* calculate_portfolio_var (zero and negative percentages included) and in
\* each of the three dollar fields of a returned record; a percentage that
\* is not a finite number gives a dollar value that is not one either.
DollarIsProduct(dollar, value, pct) ==
  IF IsFinite(pct) THEN dollar = Fin(value * pct.v) ELSE ~IsFinite(dollar)
C3_DollarIsProduct ==
  /\ last.fn = "calculate_portfolio_var" =>
       /\ DollarIsProduct(last.out.var_dollar, last.portfolio_value, last.var_percentage)
       /\ last.out.var_percentage = last.var_percentage
  /\ (IsPipeline /\ last.out.outcome = "ok") =>
       LET rec == last.out.record
       IN /\ DollarIsProduct(rec.historical_var_dollar, rec.portfolio_value.v, rec.historical_var)
          /\ DollarIsProduct(rec.parametric_var_dollar, rec.portfolio_value.v, rec.parametric_var)
          /\ DollarIsProduct(rec.monte_carlo_var_dollar, rec.portfolio_value.v, rec.monte_carlo_var)

\* a negative percentage scaled by a negative portfolio value
C3_Witness ==
  /\ last.fn = "calculate_portfolio_var"
  /\ last.var_percentage = Fin(-25)
  /\ last.portfolio_value = -1000
  /\ last.out.var_dollar = Fin(25000)

\* C4: a call of monte_carlo_var with a seed returns the same outcome, the
\* same VaR and the same simulated sample from every state the process-wide
\* generator can be in when the call is made.
C4_SeededDeterministic ==
  (last.fn = "monte_carlo_var" /\ last.random_seed # None) =>
    \A g \in RngStates :
      LET again == monte_carlo_var(g, last.returns, last.confidence_level,
                                   last.num_simulations, last.time_horizon, last.random_seed)
      IN /\ again.outcome = last.out.outcome
         /\ again.value = last.out.value
         /\ again.sample = last.out.sample

\* a seeded call that returned a sample, made after draws from another stream
C4_Witness ==
  /\ last.fn = "monte_carlo_var"
  /\ last.random_seed = Fin(PipelineSeed)
  /\ last.before.stream = 0
  /\ last.before.pos > 0
  /\ last.out.outcome = "ok"
  /\ Len(last.out.sample) = MaxSims
  /\ IsFinite(last.out.value)

\* what thread t gets when it runs alone
Alone(t) ==
  monte_carlo_var([stream |-> 0, pos |-> 0], thr[t].returns, thr[t].confidence_level,
                  thr[t].num_simulations, thr[t].time_horizon, thr[t].random_seed)

\* C5: the seeding of monte_carlo_var is local to the call: whatever the
\* order of the seed and draw steps of two seeded calls, each call gets the
\* sample it gets when it runs alone.
C5_SeedingIsLocal ==
  \A t \in DOMAIN thr :
    thr[t].pc = "done" =>
      /\ thr[t].out.sample = Alone(t).sample
      /\ thr[t].out.value = Alone(t).value

\* C5, first half: a seeded call leaves the process-wide generator as it was.
C5_GeneratorUntouched ==
  (last.fn = "monte_carlo_var" /\ last.random_seed # None) => rng = last.before

C7_FewerThanTwoFail ==
  (last.fn \in {"parametric_var", "monte_carlo_var"} /\ Len(dropna(last.returns)) < 2) =>
    Failed(last.out)

\* C8: in calculate_var_for_ticker the sample counted against the floor and
\* the sample given to each estimator hold finite numbers only.
C8_OnlyFiniteReturns ==
  IsPipeline =>
    /\ AllFinite(last.out.clean)
    /\ \A i \in 1..Len(last.out.calls) : AllFinite(last.out.calls[i].sample)

\* C9: every record returned by calculate_var_for_ticker has a confidence
\* level strictly between 0 and 1.
C9_ConfidenceInOpenInterval ==
  (IsPipeline /\ last.out.outcome = "ok") =>
    (0 < last.out.record.confidence_level /\ last.out.record.confidence_level < 100)

OrderStat(r, k) ==
  CHOOSE x \in {r[i].v : i \in 1..Len(r)} :
    /\ Cardinality({i \in 1..Len(r) : r[i].v < x}) < k
    /\ Cardinality({i \in 1..Len(r) : r[i].v <= x}) >= k
\* the (1 - c) quantile of r in 1 / Scale: the two order statistics around
\* position (1 - c) * (n - 1), weighted by the distance to it
InterpolatedQuantile(r, c) ==
  LET pos == (100 - c) * (Len(r) - 1)
      below == (pos \div 100) + 1
      above == IF below < Len(r) THEN below + 1 ELSE below
      frac == pos % 100
  IN (100 - frac) * OrderStat(r, below) + frac * OrderStat(r, above)
InsideUnit(c) == 0 < c /\ c < 100

\* C11: for a sample of finite returns and a confidence level c inside
\* (0, 1), historical_var is the negated (1 - c) quantile, interpolated
\* linearly between the two order statistics around (1 - c) * (n - 1), and
\* it does not decrease when the confidence level goes up.
C11_MonotoneInConfidence ==
  ( /\ last.fn = "historical_var"
    /\ dropna(last.returns) # <<>>
    /\ AllFinite(dropna(last.returns))
    /\ InsideUnit(last.confidence_level) ) =>
    /\ last.out = Ok(Fin(0 - Res * InterpolatedQuantile(dropna(last.returns),
                                                        last.confidence_level)))
    /\ \A c2 \in HistConfLevels :
         (InsideUnit(c2) /\ last.confidence_level < c2) =>
           LET higher == historical_var(last.returns, c2)
           IN /\ higher.outcome = "ok"
              /\ IsFinite(higher.value)
              /\ last.out.value.v <= higher.value.v

\* a loss and a gain at 40 %: the value is below the one at 60 %
C11_Witness ==
  /\ last.fn = "historical_var"
  /\ last.returns = <<Fin(-1), Fin(2)>>
  /\ last.confidence_level = 40
  /\ last.out = Ok(Fin(-800))
  /\ historical_var(last.returns, 60) = Ok(Fin(-200))

\* the historical and parametric fields of a record
HistParamFields(rec) ==
  <<rec.historical_var, rec.parametric_var,
    rec.historical_var_dollar, rec.parametric_var_dollar>>

\* C12: for a fixed price history, confidence level and portfolio value the
\* historical and parametric percentage and dollar VaR of the record are
\* the same for every time_horizon and every mc_simulations: they are the
\* ones of the run with the default horizon and one simulation.  Only the
\* Monte Carlo fields follow the horizon.
C12_HorizonOnlyInMonteCarlo ==
  (IsPipeline /\ last.out.outcome = "ok") =>
    LET base == calculate_var_for_ticker(last.before, last.ticker, last.confidence_level,
                                         last.portfolio_value, None, Fin(1), last.response)
    IN /\ base.outcome = "ok"
       /\ HistParamFields(base.record) = HistParamFields(last.out.record)

\* a record for a horizon of 4 days whose Monte Carlo VaR differs from the
\* one for 1 day while the historical and parametric VaR are finite
C12_Witness ==
  /\ IsPipeline
  /\ last.out.outcome = "ok"
  /\ last.time_horizon = Fin(4)
  /\ last.mc_simulations = Fin(MaxSims)
  /\ IsFinite(last.out.record.historical_var)
  /\ IsFinite(last.out.record.parametric_var)
  /\ IsFinite(last.out.record.monte_carlo_var)
  /\ LET day == calculate_var_for_ticker(last.before, last.ticker, last.confidence_level,
                                         last.portfolio_value, Fin(1), last.mc_simulations,
                                         last.response)
     IN /\ day.outcome = "ok"
        /\ day.record.monte_carlo_var # last.out.record.monte_carlo_var

====
